---- MODULE Spec2Model ----
(***************************************************************************)
(* Model of source/blender/blenkernel/intern/pointcloud.cc: the PointCloud *)
(* data-block (attribute layers, lazily computed bounds caches) and the    *)
(* evaluation of an object's point cloud through its modifier stack.       *)
(*                                                                         *)
(* Positions are modelled in one dimension (every float3 operation of the  *)
(* file is component-wise), floats as integers, and a radius of 0.01 as    *)
(* one unit.                                                               *)
(***************************************************************************)
EXTENDS Integers, Sequences, FiniteSets, TLC

(* ---------------------------------------------------------------- bounds *)
MaxEnts == 2
MaxPoints == 2
MaxPos == 1
MaxRadius == 1
MaxStages == 3
MaxMatPoints == 3
MaxLayers == 4
MaxCol == 2

\* radius() / radius_for_write() default: 0.01f, one unit of the model.
DefaultRadius == 1

\* The highest material index (DNA_material_types.h: 32767 - 1).
MAXMAT == 32766

Ents == 1..MaxEnts
Bufs == 1..(MaxEnts + MaxEnts)
PosVals == 0..MaxPos
RadVals == 0..MaxRadius
BOOL == {TRUE, FALSE}
MatVals == {-1, 0, 7, 999, MAXMAT + 1}
MatBufs == 1..MaxEnts
Materials == {1, 2}
Flags == {0, 1}

VARIABLES
  ent,      \* the PointCloud data-blocks, by address
  buf,      \* the layer data arrays, by address (implicitly shared)
  pending,  \* the write of the caller that is not yet followed by its tag call
  last,     \* the last call: what it was and what it returned
  phase,    \* progress of tag_positions_changed ; bounds_min_max ; bounds_min_max
  object,   \* the Object: data, evaluated data, modifier stack
  geometry_set,  \* the GeometrySet local to BKE_pointcloud_data_update
  pc,       \* where BKE_pointcloud_data_update stands
  md,       \* the modifier the loop stands at
  run,      \* what the current evaluation did so far
  material  \* flag, mat and totcol of the data-blocks, and the material arrays

cvars == <<pending, last, phase>>
evars == <<object, geometry_set, pc, md, run>>
vars == <<ent, buf, pending, last, phase, object, geometry_set, pc, md, run, material>>

(* --------------------------------------------------------- small helpers *)
Min(S) == CHOOSE x \in S : \A y \in S : x <= y
Max(S) == CHOOSE x \in S : \A y \in S : x >= y

\* Span<T>(data, size)
Span(data, size) == [i \in 1..size |-> data[i]]

(* ------------------------------------------------------- SharedCache<T> *)
EmptyCache == [state |-> "Empty", value |-> <<>>]

\* tag_dirty(): the stale value is never read again (ensure replaces it before
\* data() is read), so it is not kept.
tag_dirty(c) == IF c.state = "Valid" THEN [state |-> "Dirty", value |-> <<>>] ELSE c

is_cached(c) == c.state = "Valid"

\* ensure(compute_fn): v is the value the closure would produce.
ensure(c, v) == IF is_cached(c) THEN c ELSE [state |-> "Valid", value |-> v]

PointCloudRuntime ==
  [bounds_cache |-> EmptyCache,
   bounds_with_radius_cache |-> EmptyCache,
   bvh_cache |-> EmptyCache]

(* ------------------------------------------------------------ CustomData *)
\* A freed (or never allocated) data-block.
NoPointCloud ==
  [alive |-> FALSE, totpoint |-> 0, pdata |-> <<>>, runtime |-> PointCloudRuntime]

CustomDataLayer(name, type, b) == [name |-> name, type |-> type, buf |-> b]

\* Number of layers, over all data-blocks, that point at array b.
RefCount(w, b) ==
  Cardinality(UNION {{<<e, i>> : i \in {j \in 1..Len(w.ent[e].pdata) :
                                          w.ent[e].pdata[j].buf = b}} : e \in Ents})

FreshBuf(w) == Min({b \in Bufs : RefCount(w, b) = 0})

\* Arrays nobody points at are released.
Collect(w) ==
  [w EXCEPT !.buf = [b \in Bufs |-> IF RefCount(w, b) = 0 THEN <<>> ELSE w.buf[b]]]

\* Index of the first layer of that type and name, 0 when there is none.
CustomData_get_layer_named(pdata, type, name) ==
  LET S == {i \in 1..Len(pdata) : pdata[i].type = type /\ pdata[i].name = name}
  IN  IF S = {} THEN 0 ELSE Min(S)

\* The data pointer of layer i (0 is nullptr).
LayerData(pdata, i) == IF i = 0 THEN 0 ELSE pdata[i].buf

\* CustomData_get_layer_named_for_write: a shared array is copied first.
CustomData_get_layer_named_for_write(w, e, type, name) ==
  LET pd == w.ent[e].pdata
      i  == CustomData_get_layer_named(pd, type, name)
      b  == LayerData(pd, i)
      nb == FreshBuf(w)
  IN  IF b = 0 \/ RefCount(w, b) <= 1
        THEN [w |-> w, data |-> b]
        ELSE [w |-> [ent |-> [w.ent EXCEPT ![e].pdata[i].buf = nb],
                     buf |-> [w.buf EXCEPT ![nb] = w.buf[b]]],
              data |-> nb]

\* Whether a layer of any type has that name.
NameInUse(pdata, name) == \E i \in 1..Len(pdata) : pdata[i].name = name

\* CustomData_set_layer_unique_name: a new layer whose name another layer has
\* gets the first free numeric suffix.
CustomData_set_layer_unique_name(pdata, name) ==
  IF ~NameInUse(pdata, name) THEN name
  ELSE LET k == Min({j \in 1..(Len(pdata) + 1) :
                       ~NameInUse(pdata, name \o ".00" \o ToString(j))})
       IN  name \o ".00" \o ToString(k)

\* CustomData_add_layer_named(..., CD_SET_DEFAULT, totelem, name)
CustomData_add_layer_named(w, e, type, totelem, name) ==
  LET nb == IF totelem > 0 THEN FreshBuf(w) ELSE 0
      unique == CustomData_set_layer_unique_name(w.ent[e].pdata, name)
  IN  [w |-> [ent |-> [w.ent EXCEPT ![e].pdata =
                         Append(@, CustomDataLayer(unique, type, nb))],
              buf |-> IF nb = 0 THEN w.buf
                      ELSE [w.buf EXCEPT ![nb] = [k \in 1..totelem |-> 0]]],
       data |-> nb]

\* CustomData_realloc(data, 0, new_size): new elements are left uninitialized.
CustomData_realloc(w, e, new_size, uninit) ==
  IF new_size = 0 \/ w.ent[e].pdata = <<>> THEN w
  ELSE LET nb == FreshBuf(w)
       IN  [ent |-> [w.ent EXCEPT ![e].pdata[1].buf = nb],
            buf |-> [w.buf EXCEPT ![nb] = uninit]]

\* CustomData_free_layer_named
CustomData_free_layer_named(pdata, name) ==
  SelectSeq(pdata, LAMBDA l : l.name # name)

\* CustomData_init_from: the layers of the copy share the arrays of the source.
CustomData_init_from(pdata) == pdata

(* ------------------------------------------------------ attribute access *)
get_span_attribute(p, heap, type, name) ==
  LET data == LayerData(p.pdata, CustomData_get_layer_named(p.pdata, type, name))
  IN  IF data = 0 THEN <<>> ELSE Span(heap[data], p.totpoint)

get_varray_attribute(p, heap, type, name, default_value) ==
  LET data == LayerData(p.pdata, CustomData_get_layer_named(p.pdata, type, name))
  IN  IF data # 0
        THEN [single |-> FALSE, value |-> 0, span |-> Span(heap[data], p.totpoint)]
        ELSE [single |-> TRUE, value |-> default_value, span |-> <<>>]

\* get_mutable_attribute that looks the layer up without asking for write access,
\* and so writes into an array other data-blocks may share.
get_mutable_attribute_shared(w, e, type, name, default_value) ==
  IF w.ent[e].totpoint <= 0 THEN [w |-> w, data |-> 0]
  ELSE LET pd   == w.ent[e].pdata
           data == LayerData(pd, CustomData_get_layer_named(pd, type, name))
           add  == CustomData_add_layer_named(w, e, type, w.ent[e].totpoint, name)
       IN  IF data # 0 THEN [w |-> w, data |-> data]
           ELSE IF add.w.buf[add.data][1] # default_value
             THEN [w |-> [add.w EXCEPT !.buf[add.data] =
                            [k \in 1..w.ent[e].totpoint |-> default_value]],
                   data |-> add.data]
             ELSE add

\* get_mutable_attribute that returns a new layer as CustomData made it.
get_mutable_attribute_unfilled(w, e, type, name, default_value) ==
  IF w.ent[e].totpoint <= 0 THEN [w |-> w, data |-> 0]
  ELSE LET got == CustomData_get_layer_named_for_write(w, e, type, name)
       IN  IF got.data # 0 THEN got
           ELSE CustomData_add_layer_named(w, e, type, w.ent[e].totpoint, name)

\* get_mutable_attribute that applies the fill to a layer it found as well.
get_mutable_attribute_refilled(w, e, type, name, default_value) ==
  IF w.ent[e].totpoint <= 0 THEN [w |-> w, data |-> 0]
  ELSE LET got == CustomData_get_layer_named_for_write(w, e, type, name)
           add == CustomData_add_layer_named(w, e, type, w.ent[e].totpoint, name)
           hit == IF got.data # 0 THEN got ELSE add
       IN  IF hit.w.buf[hit.data][1] # default_value
             THEN [w |-> [hit.w EXCEPT !.buf[hit.data] =
                            [k \in 1..w.ent[e].totpoint |-> default_value]],
                   data |-> hit.data]
             ELSE hit

get_mutable_attribute(w, e, type, name, default_value) ==
  IF w.ent[e].totpoint <= 0 THEN [w |-> w, data |-> 0]
  ELSE LET got == CustomData_get_layer_named_for_write(w, e, type, name)
           add == CustomData_add_layer_named(w, e, type, w.ent[e].totpoint, name)
       IN  IF got.data # 0 THEN got
           ELSE IF add.w.buf[add.data][1] # default_value
             THEN [w |-> [add.w EXCEPT !.buf[add.data] =
                            [k \in 1..w.ent[e].totpoint |-> default_value]],
                   data |-> add.data]
             ELSE add

positions(p, heap) == get_span_attribute(p, heap, "float3", "position")

\* positions_for_write that asks for the element type of the radius.
positions_for_write_as_float(w, e) == get_mutable_attribute(w, e, "float", "position", 0)

positions_for_write(w, e) == get_mutable_attribute(w, e, "float3", "position", 0)

radius(p, heap) == get_varray_attribute(p, heap, "float", "radius", DefaultRadius)

radius_for_write(w, e) == get_mutable_attribute(w, e, "float", "radius", DefaultRadius)

(* ------------------------------------------------------------- lifecycle *)
pointcloud_init_data ==
  [alive |-> TRUE, totpoint |-> 0,
   pdata |-> <<CustomDataLayer("position", "float3", 0)>>,
   runtime |-> PointCloudRuntime]

\* BKE_pointcloud_new_nomain that sets the count without resizing the layers.
BKE_pointcloud_new_nomain_no_realloc(w, e, totpoint, uninit) ==
  [w EXCEPT !.ent[e] = [pointcloud_init_data EXCEPT !.totpoint = totpoint]]

BKE_pointcloud_new_nomain(w, e, totpoint, uninit) ==
  LET w1 == [w EXCEPT !.ent[e] = pointcloud_init_data]
      w2 == CustomData_realloc(w1, e, totpoint, uninit)
  IN  [w2 EXCEPT !.ent[e].totpoint = totpoint]

pointcloud_new_no_attributes(w, e, totpoint) ==
  LET w1 == BKE_pointcloud_new_nomain(w, e, 0, <<>>)
  IN  [w1 EXCEPT !.ent[e].totpoint = totpoint,
                 !.ent[e].pdata = CustomData_free_layer_named(@, "position")]

\* BKE_id_copy_ex copies the struct, then pointcloud_copy_data its members.
pointcloud_copy_data(w, dst, src) ==
  [w EXCEPT !.ent[dst] =
     [alive |-> TRUE,
      totpoint |-> w.ent[src].totpoint,
      pdata |-> CustomData_init_from(w.ent[src].pdata),
      runtime |-> [bounds_cache |-> w.ent[src].runtime.bounds_cache,
                   bounds_with_radius_cache |->
                     w.ent[src].runtime.bounds_with_radius_cache,
                   bvh_cache |-> w.ent[src].runtime.bvh_cache]]]

pointcloud_free_data(w, e) == Collect([w EXCEPT !.ent[e] = NoPointCloud])

\* CustomData_free: no layer is left.
CustomData_free(pdata) == <<>>

\* BKE_pointcloud_nomain_to_pointcloud that leaves the caches of dst alone.
BKE_pointcloud_nomain_to_pointcloud_keeps_caches(w, src, dst) ==
  LET w1 == [w EXCEPT !.ent[dst].pdata = CustomData_free(@)]
      w2 == [w1 EXCEPT !.ent[dst].totpoint = w.ent[src].totpoint,
                       !.ent[dst].pdata = CustomData_init_from(w.ent[src].pdata)]
  IN  pointcloud_free_data(w2, src)

\* BKE_pointcloud_nomain_to_pointcloud(src, dst), src and dst being two
\* data-blocks; BKE_id_free(nullptr, src) ends it.
BKE_pointcloud_nomain_to_pointcloud(w, src, dst) ==
  LET w1 == [w EXCEPT !.ent[dst].pdata = CustomData_free(@)]
      w2 == [w1 EXCEPT !.ent[dst].totpoint = w.ent[src].totpoint,
                       !.ent[dst].pdata = CustomData_init_from(w.ent[src].pdata)]
      w3 == [w2 EXCEPT
               !.ent[dst].runtime.bounds_cache = w.ent[src].runtime.bounds_cache,
               !.ent[dst].runtime.bounds_with_radius_cache =
                  w.ent[src].runtime.bounds_with_radius_cache,
               !.ent[dst].runtime.bvh_cache = w.ent[src].runtime.bvh_cache]
  IN  pointcloud_free_data(w3, src)

(* ---------------------------------------------------------------- bounds *)
\* bounds::min_max: nullopt (<<>>) for an empty span.
min_max(values) ==
  IF values = <<>> THEN <<>>
  ELSE <<Min({values[i] : i \in 1..Len(values)}),
         Max({values[i] : i \in 1..Len(values)})>>

\* bounds::min_max_with_radii: every point widened by its own radius.
min_max_with_radii(values, radii) ==
  IF values = <<>> THEN <<>>
  ELSE <<Min({values[i] - radii[i] : i \in 1..Len(values)}),
         Max({values[i] + radii[i] : i \in 1..Len(values)})>>

\* Bounds::pad
pad(b, r) == <<b[1] - r, b[2] + r>>

\* operator* of std::optional: on nullopt the behaviour is undefined, and the
\* caller reads whatever the storage holds.
Deref(opt, garbage) == IF opt = <<>> THEN garbage ELSE opt

GarbageBounds == {<<0, 0>>, <<MaxPos, 0>>}

\* PointCloud::bounds_min_max: the runtime as the call leaves it, the result,
\* and how often the closure of each cache ran (nb: bounds, nr: with radius).
RECURSIVE bounds_min_max(_, _, _, _)

\* bounds_ensure that pads an envelope it computes from the positions itself,
\* without going through the cache of the plain bounds.
bounds_ensure_no_reuse(p, heap, use_radius, garbage) ==
  IF use_radius
    THEN LET c      == p.runtime.bounds_with_radius_cache
             rad    == radius(p, heap)
             value  == IF rad.single
                         THEN pad(Deref(min_max(positions(p, heap)), garbage), rad.value)
                         ELSE Deref(min_max_with_radii(positions(p, heap), rad.span),
                                    garbage)
             after  == [p.runtime EXCEPT !.bounds_with_radius_cache = ensure(c, value)]
         IN  [runtime |-> after,
              result |-> after.bounds_with_radius_cache.value,
              nb |-> 0,
              nr |-> IF is_cached(c) THEN 0 ELSE 1]
    ELSE LET c     == p.runtime.bounds_cache
             value == Deref(min_max(positions(p, heap)), garbage)
             after == [p.runtime EXCEPT !.bounds_cache = ensure(c, value)]
         IN  [runtime |-> after,
              result |-> after.bounds_cache.value,
              nb |-> IF is_cached(c) THEN 0 ELSE 1,
              nr |-> 0]

\* The part of bounds_min_max after the check for an empty point cloud.
bounds_ensure(p, heap, use_radius, garbage) ==
  IF use_radius
    THEN LET c      == p.runtime.bounds_with_radius_cache
             rad    == radius(p, heap)
             inner  == bounds_min_max(p, heap, FALSE, garbage)
             single == ~is_cached(c) /\ rad.single
             value  == IF rad.single
                         THEN pad(Deref(inner.result, garbage), rad.value)
                         ELSE Deref(min_max_with_radii(positions(p, heap), rad.span),
                                    garbage)
             rt     == IF single THEN inner.runtime ELSE p.runtime
             after  == [rt EXCEPT !.bounds_with_radius_cache = ensure(c, value)]
         IN  [runtime |-> after,
              result |-> after.bounds_with_radius_cache.value,
              nb |-> IF single THEN inner.nb ELSE 0,
              nr |-> IF is_cached(c) THEN 0 ELSE 1]
    ELSE LET c     == p.runtime.bounds_cache
             value == Deref(min_max(positions(p, heap)), garbage)
             after == [p.runtime EXCEPT !.bounds_cache = ensure(c, value)]
         IN  [runtime |-> after,
              result |-> after.bounds_cache.value,
              nb |-> IF is_cached(c) THEN 0 ELSE 1,
              nr |-> 0]

\* Without the early return for totpoint == 0.
bounds_min_max_unchecked(p, heap, use_radius, garbage) ==
  bounds_ensure(p, heap, use_radius, garbage)

bounds_min_max(p, heap, use_radius, garbage) ==
  IF p.totpoint = 0
    THEN [runtime |-> p.runtime, result |-> <<>>, nb |-> 0, nr |-> 0]
    ELSE bounds_ensure(p, heap, use_radius, garbage)

\* tag_positions_changed that forgets the cache of the padded bounds.
tag_positions_changed_not_radius(rt) ==
  [bounds_cache |-> tag_dirty(rt.bounds_cache),
   bounds_with_radius_cache |-> rt.bounds_with_radius_cache,
   bvh_cache |-> tag_dirty(rt.bvh_cache)]

\* tag_positions_changed that forgets the cache of the plain bounds.
tag_positions_changed_not_bounds(rt) ==
  [bounds_cache |-> rt.bounds_cache,
   bounds_with_radius_cache |-> tag_dirty(rt.bounds_with_radius_cache),
   bvh_cache |-> tag_dirty(rt.bvh_cache)]

\* PointCloud::tag_positions_changed
tag_positions_changed(rt) ==
  [bounds_cache |-> tag_dirty(rt.bounds_cache),
   bounds_with_radius_cache |-> tag_dirty(rt.bounds_with_radius_cache),
   bvh_cache |-> tag_dirty(rt.bvh_cache)]

\* tag_radii_changed that tags the plain bounds as well.
tag_radii_changed_both(rt) ==
  [rt EXCEPT !.bounds_cache = tag_dirty(@),
             !.bounds_with_radius_cache = tag_dirty(@)]

\* PointCloud::tag_radii_changed
tag_radii_changed(rt) ==
  [rt EXCEPT !.bounds_with_radius_cache = tag_dirty(@)]

\* The BVH tree of the points, built on demand into runtime->bvh_cache; the
\* tree itself is opaque here.
bvh_ensure(p, heap) ==
  [p.runtime EXCEPT !.bvh_cache = ensure(@, <<>>)]

(* -------------------------------------------------------- material index *)
\* AttributeAccessor::lookup_or_default<T>(name, AttrDomain::Point, default).varray
lookup_or_default(p, heap, type, name, default_value) ==
  get_varray_attribute(p, heap, type, name, default_value)

\* bounds::max<int>(varray): nullopt (<<>>) when the array is empty.
bounds_max(va, size) ==
  IF size = 0 THEN <<>>
  ELSE IF va.single THEN <<va.value>>
  ELSE <<Max({va.span[i] : i \in 1..size})>>

\* std::clamp(v, lo, hi)
clamp(v, lo, hi) == IF v < lo THEN lo ELSE IF hi < v THEN hi ELSE v

\* material_index_max that returns the maximum as it found it.
material_index_max_unclamped(p, heap) ==
  IF p.totpoint = 0 THEN <<>>
  ELSE bounds_max(lookup_or_default(p, heap, "int", "material_index", 0), p.totpoint)

\* material_index_max that looks the attribute up under a name no layer has.
material_index_max_default_only(p, heap) ==
  IF p.totpoint = 0 THEN <<>>
  ELSE LET max_material_index ==
             bounds_max(lookup_or_default(p, heap, "int", "material", 0), p.totpoint)
       IN  IF max_material_index # <<>>
             THEN <<clamp(max_material_index[1], 0, MAXMAT)>>
             ELSE max_material_index

\* PointCloud::material_index_max
material_index_max(p, heap) ==
  IF p.totpoint = 0 THEN <<>>
  ELSE LET max_material_index ==
             bounds_max(lookup_or_default(p, heap, "int", "material_index", 0),
                        p.totpoint)
       IN  IF max_material_index # <<>>
             THEN <<clamp(max_material_index[1], 0, MAXMAT)>>
             ELSE max_material_index

\* attributes_for_write().lookup_or_add_for_write_span<int>("material_index", Point)
material_index_for_write(w, e) == get_mutable_attribute(w, e, "int", "material_index", 0)

(* ------------------------------------------------------------- materials *)
\* flag, mat (0 is nullptr) and totcol of a data-block without materials.
NoMaterial == [flag |-> 0, mat |-> 0, totcol |-> 0]

NoMaterials ==
  [of |-> [e \in Ents |-> NoMaterial],
   heap |-> [a \in MatBufs |-> [live |-> FALSE, data |-> <<>>]]]

\* MEM_SAFE_FREE(mat)
MEM_SAFE_FREE(heap, a) ==
  IF a = 0 THEN heap ELSE [heap EXCEPT ![a] = [live |-> FALSE, data |-> <<>>]]

\* The address MEM_malloc_arrayN / MEM_dupallocN hands out.
MEM_malloc(heap) == Min({a \in MatBufs : ~heap[a].live})

\* Span(mat, totcol)
MaterialSpan(m, e) ==
  IF m.of[e].mat = 0 THEN <<>> ELSE Span(m.heap[m.of[e].mat].data, m.of[e].totcol)

\* pointcloud_copy_parameters that hands dst the array of src.
pointcloud_copy_parameters_shared(m, src, dst) ==
  [of |-> [m.of EXCEPT ![dst] = m.of[src]],
   heap |-> MEM_SAFE_FREE(m.heap, m.of[dst].mat)]

\* pointcloud_copy_parameters(src, dst), src and dst being two data-blocks.
pointcloud_copy_parameters(m, src, dst) ==
  LET freed == MEM_SAFE_FREE(m.heap, m.of[dst].mat)
      mat   == MEM_malloc(freed)
  IN  [of |-> [m.of EXCEPT ![dst] = [flag |-> m.of[src].flag, mat |-> mat,
                                      totcol |-> m.of[src].totcol]],
       heap |-> [freed EXCEPT ![mat] = [live |-> TRUE, data |-> MaterialSpan(m, src)]]]

\* pointcloud_copy_data: the struct is copied, mat is MEM_dupallocN(src->mat).
material_copy_data(m, dst, src) ==
  IF m.of[src].mat = 0 THEN [m EXCEPT !.of[dst] = m.of[src]]
  ELSE LET mat == MEM_malloc(m.heap)
       IN  [of |-> [m.of EXCEPT ![dst] = [m.of[src] EXCEPT !.mat = mat]],
            heap |-> [m.heap EXCEPT ![mat] = m.heap[m.of[src].mat]]]

\* pointcloud_free_data: MEM_SAFE_FREE(pointcloud->mat)
material_free_data(m, e) ==
  [of |-> [m.of EXCEPT ![e] = NoMaterial], heap |-> MEM_SAFE_FREE(m.heap, m.of[e].mat)]

\* The material slots of a data-block are set (BKE_id_material_*): a new array
\* of the given materials replaces the old one.
material_assign(m, e, flag, mats) ==
  LET freed == MEM_SAFE_FREE(m.heap, m.of[e].mat)
      mat   == IF mats = <<>> THEN 0 ELSE MEM_malloc(freed)
  IN  [of |-> [m.of EXCEPT ![e] = [flag |-> flag, mat |-> mat, totcol |-> Len(mats)]],
       heap |-> IF mat = 0 THEN freed
                ELSE [freed EXCEPT ![mat] = [live |-> TRUE, data |-> mats]]]

(* ------------------------------------------- what the attributes hold *)
\* What a reader of the attributes sees, independently of the caches.
HasLayer(p, type, name) ==
  \E i \in 1..Len(p.pdata) : p.pdata[i].type = type /\ p.pdata[i].name = name

LayerValues(p, heap, type, name) ==
  LET i == CHOOSE j \in 1..Len(p.pdata) :
             /\ p.pdata[j].type = type /\ p.pdata[j].name = name
             /\ \A k \in 1..(j - 1) : ~(p.pdata[k].type = type /\ p.pdata[k].name = name)
  IN  IF p.pdata[i].buf = 0 THEN <<>> ELSE heap[p.pdata[i].buf]

CurrentPosition(p, heap, i) == LayerValues(p, heap, "float3", "position")[i]

CurrentRadius(p, heap, i) ==
  IF HasLayer(p, "float", "radius")
    THEN LayerValues(p, heap, "float", "radius")[i]
    ELSE DefaultRadius

Envelope(p, heap, use_radius) ==
  LET lo(i) == CurrentPosition(p, heap, i)
                 - (IF use_radius THEN CurrentRadius(p, heap, i) ELSE 0)
      hi(i) == CurrentPosition(p, heap, i)
                 + (IF use_radius THEN CurrentRadius(p, heap, i) ELSE 0)
  IN  <<Min({lo(i) : i \in 1..p.totpoint}), Max({hi(i) : i \in 1..p.totpoint})>>

(* ------------------------------------------------- calls on data-blocks *)
World == [ent |-> ent, buf |-> buf]

SetWorld(w) == ent' = w.ent /\ buf' = w.buf

Alive == {e \in Ents : ent[e].alive}

\* The address the allocator hands out next.
NewEnt == Min(Ents \ Alive)

NoPending == [e |-> 0, kind |-> "none"]

Call(op, e, arg, use_radius, result, nb, nr) ==
  [op |-> op, e |-> e, arg |-> arg, use_radius |-> use_radius, result |-> result,
   nb |-> nb, nr |-> nr]

\* How far the caller is in one of the two sequences of calls on data-block e:
\* 1 tag_positions_changed, 2 and 3 the bounds_min_max(false) after it;
\* 4 tag_radii_changed with every cache valid, 5 the bounds_min_max(true) and
\* 6 the bounds_min_max(false) after it;
\* 7 BKE_pointcloud_nomain_to_pointcloud into e, 8 the bounds_min_max after it.
NoPhase == [e |-> 0, n |-> 0]

AllCached(rt) ==
  /\ is_cached(rt.bounds_cache)
  /\ is_cached(rt.bounds_with_radius_cache)
  /\ is_cached(rt.bvh_cache)

NewNomain(totpoint, uninit) ==
  /\ Alive # Ents
  /\ SetWorld(BKE_pointcloud_new_nomain(World, NewEnt, totpoint, uninit))
  /\ last' = Call("BKE_pointcloud_new_nomain", NewEnt, totpoint, FALSE, <<>>, 0, 0)
  /\ phase' = NoPhase
  /\ UNCHANGED <<pending, evars, material>>

NewNoAttributes(totpoint) ==
  /\ Alive # Ents
  /\ SetWorld(pointcloud_new_no_attributes(World, NewEnt, totpoint))
  /\ last' = Call("pointcloud_new_no_attributes", NewEnt, totpoint, FALSE, <<>>, 0, 0)
  /\ phase' = NoPhase
  /\ UNCHANGED <<pending, evars, material>>

CopyForEval(src) ==
  /\ Alive # Ents
  /\ SetWorld(pointcloud_copy_data(World, NewEnt, src))
  /\ material' = material_copy_data(material, NewEnt, src)
  /\ last' = Call("BKE_pointcloud_copy_for_eval", NewEnt, src, FALSE, <<>>, 0, 0)
  /\ phase' = NoPhase
  /\ UNCHANGED <<pending, evars>>

Free(e) ==
  /\ SetWorld(pointcloud_free_data(World, e))
  /\ material' = material_free_data(material, e)
  /\ last' = Call("pointcloud_free_data", e, 0, FALSE, <<>>, 0, 0)
  /\ phase' = NoPhase
  /\ UNCHANGED <<pending, evars>>

\* positions_for_write()[i] = v
WritePosition(e, i, v) ==
  LET got == positions_for_write(World, e)
  IN  /\ i <= ent[e].totpoint
      /\ SetWorld([got.w EXCEPT !.buf[got.data][i] = v])
      /\ pending' = [e |-> e, kind |-> "position"]
      /\ last' = Call("positions_for_write", e, 0, FALSE, <<>>, 0, 0)
      /\ phase' = NoPhase
      /\ UNCHANGED <<evars, material>>

\* radius_for_write()[i] = v
WriteRadius(e, i, v) ==
  LET got == radius_for_write(World, e)
  IN  /\ i <= ent[e].totpoint
      /\ SetWorld([got.w EXCEPT !.buf[got.data][i] = v])
      /\ pending' = [e |-> e, kind |-> "radius"]
      /\ last' = Call("radius_for_write", e, 0, FALSE, <<>>, 0, 0)
      /\ phase' = NoPhase
      /\ UNCHANGED <<evars, material>>

TagPositionsChanged(e) ==
  /\ ent' = [ent EXCEPT ![e].runtime = tag_positions_changed(@)]
  /\ pending' = NoPending
  /\ last' = Call("tag_positions_changed", e, 0, FALSE, <<>>, 0, 0)
  /\ phase' = [e |-> e, n |-> 1]
  /\ UNCHANGED <<buf, evars, material>>

TagRadiiChanged(e) ==
  /\ ent' = [ent EXCEPT ![e].runtime = tag_radii_changed(@)]
  /\ pending' = NoPending
  /\ last' = Call("tag_radii_changed", e, 0, FALSE, <<>>, 0, 0)
  /\ phase' = IF AllCached(ent[e].runtime) THEN [e |-> e, n |-> 4] ELSE NoPhase
  /\ UNCHANGED <<buf, evars, material>>

BoundsMinMax(e, use_radius, garbage) ==
  LET r == bounds_min_max(ent[e], buf, use_radius, garbage)
  IN  /\ ent' = [ent EXCEPT ![e].runtime = r.runtime]
      /\ last' = Call("bounds_min_max", e, 0, use_radius, r.result, r.nb, r.nr)
      /\ phase' = IF \/ ~use_radius /\ phase.e = e /\ phase.n \in {1, 2, 5}
                     \/ use_radius /\ phase.e = e /\ phase.n = 4
                     \/ phase.e = e /\ phase.n = 7
                    THEN [phase EXCEPT !.n = @ + 1]
                    ELSE NoPhase
      /\ UNCHANGED <<buf, pending, evars, material>>

BvhEnsure(e) ==
  /\ ent' = [ent EXCEPT ![e].runtime = bvh_ensure(ent[e], buf)]
  /\ last' = Call("bvh_ensure", e, 0, FALSE, <<>>, 0, 0)
  /\ phase' = NoPhase
  /\ UNCHANGED <<buf, pending, evars, material>>

NoComponent == [has |-> FALSE, pointcloud |-> 0, ownership |-> "ReadOnly"]

\* What an evaluation did: the mode, whether it found an error of the run
\* before, the modifiers it called, and the ownership it ended with.
NoRun == [use_render |-> FALSE, cleared |-> FALSE, invoked |-> <<>>, final |-> "none"]

NoObject ==
  [data |-> 0, data_eval |-> 0, is_data_eval_owned |-> FALSE,
   geometry_set_eval |-> NoComponent, modifiers |-> <<>>]

Init ==
  /\ ent = [e \in Ents |-> NoPointCloud]
  /\ buf = [b \in Bufs |-> <<>>]
  /\ pending = NoPending
  /\ last = Call("none", 0, 0, FALSE, <<>>, 0, 0)
  /\ phase = NoPhase
  /\ object = NoObject
  /\ geometry_set = NoComponent
  /\ pc = "idle"
  /\ md = 0
  /\ run = NoRun
  /\ material = NoMaterials

\* The caller follows every write by the tag call for what it wrote, before it
\* does anything else.
Tagged == pending = NoPending

\* One data-block at a time: its attributes, its tags and its caches.
Next ==
  \/ \E n \in 0..MaxPoints : \E u \in [1..n -> PosVals] :
       Tagged /\ Alive = {} /\ NewNomain(n, u)
  \/ \E n \in 0..MaxPoints : Tagged /\ Alive = {} /\ NewNoAttributes(n)
  \/ \E e \in Alive : Tagged /\ Free(e)
  \/ \E e \in Alive : \E i \in 1..MaxPoints : \E v \in PosVals :
       Tagged /\ WritePosition(e, i, v)
  \/ \E e \in Alive : \E i \in 1..MaxPoints : \E v \in RadVals :
       Tagged /\ WriteRadius(e, i, v)
  \/ \E e \in Alive : (Tagged \/ pending.e = e) /\ TagPositionsChanged(e)
  \/ \E e \in Alive :
       (Tagged \/ pending = [e |-> e, kind |-> "radius"]) /\ TagRadiiChanged(e)
  \/ \E e \in Alive : \E r \in BOOL :
       \E g \in IF HasLayer(ent[e], "float3", "position") THEN {<<0, 0>>} ELSE GarbageBounds :
          Tagged /\ BoundsMinMax(e, r, g)
  \/ \E e \in Alive : Tagged /\ BvhEnsure(e)

Spec == Init /\ [][Next]_vars

\* A data-block and its copies: the attribute arrays they share.
CopyNext ==
  \/ \E n \in 0..MaxPoints : \E u \in [1..n -> PosVals] : Alive = {} /\ NewNomain(n, u)
  \/ \E e \in Alive : CopyForEval(e)
  \/ \E e \in Alive : Free(e)
  \/ \E e \in Alive : \E i \in 1..MaxPoints : \E v \in PosVals : WritePosition(e, i, v)
  \/ \E e \in Alive : \E i \in 1..MaxPoints : \E v \in RadVals : WriteRadius(e, i, v)

CopySpec == Init /\ [][CopyNext]_vars

\* material_index_for_write()[i] = v
WriteMaterialIndex(e, i, v) ==
  LET got == material_index_for_write(World, e)
  IN  /\ i <= ent[e].totpoint
      /\ SetWorld([got.w EXCEPT !.buf[got.data][i] = v])
      /\ last' = Call("material_index_for_write", e, 0, FALSE, <<>>, 0, 0)
      /\ phase' = NoPhase
      /\ UNCHANGED <<pending, evars, material>>

MaterialIndexMax(e) ==
  /\ last' = Call("material_index_max", e, 0, FALSE, material_index_max(ent[e], buf), 0, 0)
  /\ phase' = NoPhase
  /\ UNCHANGED <<ent, buf, pending, evars, material>>

\* A data-block of up to MaxMatPoints points and the material indices of its
\* points.
MatNext ==
  \/ \E n \in 0..MaxMatPoints : Alive = {} /\ NewNomain(n, [i \in 1..n |-> 0])
  \/ \E n \in 0..MaxMatPoints : Alive = {} /\ NewNoAttributes(n)
  \/ \E e \in Alive : Free(e)
  \/ \E e \in Alive : \E i \in 1..MaxMatPoints : \E v \in MatVals :
       WriteMaterialIndex(e, i, v)
  \/ \E e \in Alive : MaterialIndexMax(e)

MatSpec == Init /\ [][MatNext]_vars

\* positions_for_write(), the span it returns not written to.
PositionsForWrite(e) ==
  LET got == positions_for_write(World, e)
  IN  /\ SetWorld(got.w)
      /\ last' = Call("span positions_for_write", e, got.data, FALSE,
                      IF got.data = 0 THEN <<>>
                      ELSE Span(got.w.buf[got.data], ent[e].totpoint), 0, 0)
      /\ phase' = NoPhase
      /\ UNCHANGED <<pending, evars, material>>

\* radius_for_write(), the span it returns not written to.
RadiusForWrite(e) ==
  LET got == radius_for_write(World, e)
  IN  /\ SetWorld(got.w)
      /\ last' = Call("span radius_for_write", e, got.data, FALSE,
                      IF got.data = 0 THEN <<>>
                      ELSE Span(got.w.buf[got.data], ent[e].totpoint), 0, 0)
      /\ phase' = NoPhase
      /\ UNCHANGED <<pending, evars, material>>

\* A layer named "radius" that is not of type float comes into the storage
\* (CustomData_add_layer_named called on pdata directly, or loaded data).
AddForeignLayer(e) ==
  /\ SetWorld(CustomData_add_layer_named(World, e, "int", ent[e].totpoint, "radius").w)
  /\ last' = Call("CustomData_add_layer_named", e, 0, FALSE, <<>>, 0, 0)
  /\ phase' = NoPhase
  /\ UNCHANGED <<pending, evars, material>>

\* The layers cannot grow beyond MaxLayers.
Room(e) == Len(ent[e].pdata) < MaxLayers

\* One data-block: its layers and the spans handed out for writing.
AttrNext ==
  \/ \E n \in 0..MaxPoints : \E u \in [1..n -> PosVals] : Alive = {} /\ NewNomain(n, u)
  \/ \E n \in 0..MaxPoints : Alive = {} /\ NewNoAttributes(n)
  \/ \E e \in Alive : Free(e)
  \/ \E e \in Alive : Room(e) /\ PositionsForWrite(e)
  \/ \E e \in Alive : Room(e) /\ RadiusForWrite(e)
  \/ \E e \in Alive : \E i \in 1..MaxPoints : \E v \in PosVals :
       Room(e) /\ WritePosition(e, i, v)
  \/ \E e \in Alive : \E i \in 1..MaxPoints : \E v \in RadVals :
       Room(e) /\ WriteRadius(e, i, v)
  \/ \E e \in Alive : Room(e) /\ AddForeignLayer(e)

AttrSpec == Init /\ [][AttrNext]_vars

AssignMaterials(e, flag, mats) ==
  /\ material' = material_assign(material, e, flag, mats)
  /\ last' = Call("material_assign", e, 0, FALSE, <<>>, 0, 0)
  /\ phase' = NoPhase
  /\ UNCHANGED <<ent, buf, pending, evars>>

CopyParameters(src, dst) ==
  /\ material' = pointcloud_copy_parameters(material, src, dst)
  /\ last' = Call("pointcloud_copy_parameters", dst, src, FALSE, <<>>, 0, 0)
  /\ phase' = NoPhase
  /\ UNCHANGED <<ent, buf, pending, evars>>

\* The material arrays one may assign: up to MaxCol materials.
MaterialArrays == UNION {[1..k -> Materials] : k \in 0..MaxCol}

\* Two data-blocks, their material slots, and copies of parameters between them.
ParamNext ==
  \/ \E n \in {0, MaxPoints} :
       Cardinality(Alive) < 2 /\ NewNomain(n, [i \in 1..n |-> 0])
  \/ \E e \in Alive : Free(e)
  \/ \E e \in Alive : \E flag \in Flags : \E mats \in MaterialArrays :
       AssignMaterials(e, flag, mats)
  \/ \E src \in Alive : \E dst \in Alive \ {src} : CopyParameters(src, dst)

ParamSpec == Init /\ [][ParamNext]_vars

NomainToPointcloud(src, dst) ==
  /\ SetWorld(BKE_pointcloud_nomain_to_pointcloud(World, src, dst))
  /\ material' = material_free_data(material, src)
  /\ last' = Call("BKE_pointcloud_nomain_to_pointcloud", dst, src, FALSE, <<>>, 0, 0)
  /\ phase' = [e |-> dst, n |-> 7]
  /\ UNCHANGED <<pending, evars>>

\* Two data-blocks, their caches, and the move of one into the other.
MoveNext ==
  \/ \E n \in 0..MaxPoints : \E u \in [1..n -> PosVals] :
       Cardinality(Alive) < 2 /\ NewNomain(n, u)
  \/ \E n \in 0..MaxPoints : Cardinality(Alive) < 2 /\ NewNoAttributes(n)
  \/ \E e \in Alive : Cardinality(Alive) < 2 /\ CopyForEval(e)
  \/ \E e \in Alive : Free(e)
  \/ \E e \in Alive : \E r \in BOOL :
       \E g \in IF HasLayer(ent[e], "float3", "position") THEN {<<0, 0>>} ELSE GarbageBounds :
          BoundsMinMax(e, r, g)
  \/ \E e \in Alive : BvhEnsure(e)
  \/ \E src \in Alive : \E dst \in Alive \ {src} : NomainToPointcloud(src, dst)

MoveSpec == Init /\ [][MoveNext]_vars

(* ----------------------------------------------- modifier evaluation *)
\* GeometrySet::from_pointcloud(pointcloud, ownership)
from_pointcloud(pointcloud, ownership) ==
  IF pointcloud = 0 THEN NoComponent
  ELSE [has |-> TRUE, pointcloud |-> pointcloud, ownership |-> ownership]

\* A geometry set that owns the original data-block.
initial_geometry_set_owned(pointcloud) == from_pointcloud(pointcloud, "Owned")

\* The GeometrySet BKE_pointcloud_data_update starts from.
initial_geometry_set(pointcloud) == from_pointcloud(pointcloud, "ReadOnly")

\* PointCloudComponent::clear: an owned data-block is freed with the component.
component_clear(w, gs) ==
  IF gs.has /\ gs.pointcloud # 0 /\ gs.ownership = "Owned"
    THEN pointcloud_free_data(w, gs.pointcloud)
    ELSE w

\* BKE_modifier_is_enabled(scene, md, required_mode)
BKE_modifier_is_enabled(m, required_mode) == required_mode \in m.mode

required_mode(use_render) == IF use_render THEN "Render" ELSE "Realtime"

\* BKE_modifiers_clear_errors that leaves the errors where they are.
BKE_modifiers_clear_errors_kept(mods) == mods

\* BKE_modifiers_clear_errors
BKE_modifiers_clear_errors(mods) == [i \in 1..Len(mods) |-> [mods[i] EXCEPT !.error = FALSE]]

\* What a modifier may do to the geometry set it is handed (mti->modify_geometry_set):
\*   pass     leave it alone
\*   measure  ask its data-block for its padded bounds and leave it alone
\*   replace  put a new data-block of MaxPoints points in it, owned by the set
\*   empty    put a new data-block of no points in it, owned by the set
\*   edit     move the first point of its data-block, after a copy when the set
\*            does not own it
\*   remove   remove the point cloud component
\*   clear    leave the component without a data-block
Effects == {"pass", "measure", "replace", "empty", "edit", "remove", "clear"}

modify_geometry_set(w, gs, eff) ==
  CASE eff = "pass" -> [w |-> w, gs |-> gs]
    [] eff = "measure" ->
         LET e == gs.pointcloud
             r == bounds_min_max(w.ent[e], w.buf, TRUE, <<0, 0>>)
         IN  [w |-> [w EXCEPT !.ent[e].runtime = r.runtime], gs |-> gs]
    [] eff = "remove" -> [w |-> component_clear(w, gs), gs |-> NoComponent]
    [] eff = "clear" ->
         [w |-> component_clear(w, gs),
          gs |-> [has |-> TRUE, pointcloud |-> 0, ownership |-> "Owned"]]
    [] eff \in {"replace", "empty"} ->
         LET w1 == component_clear(w, gs)
             e  == Min({x \in Ents : ~w1.ent[x].alive})
             n  == IF eff = "empty" THEN 0 ELSE MaxPoints
         IN  [w |-> BKE_pointcloud_new_nomain(w1, e, n, [k \in 1..n |-> MaxPos]),
              gs |-> [has |-> TRUE, pointcloud |-> e, ownership |-> "Owned"]]
    [] eff = "edit" ->
         LET owned == gs.ownership = "Owned"
             e  == IF owned THEN gs.pointcloud
                   ELSE Min({x \in Ents : ~w.ent[x].alive})
             w1 == IF owned THEN w ELSE pointcloud_copy_data(w, e, gs.pointcloud)
             got == positions_for_write(w1, e)
             v  == (got.w.buf[got.data][1] + 1) % (MaxPos + 1)
             w2 == [got.w EXCEPT !.buf[got.data][1] = v]
         IN  [w |-> [w2 EXCEPT !.ent[e].runtime = tag_positions_changed(@)],
              gs |-> [has |-> TRUE, pointcloud |-> e, ownership |-> "Owned"]]

\* Whether the modifier can apply the effect to this geometry set.
Applicable(w, gs, eff) ==
  /\ eff = "measure" => (gs.has /\ gs.pointcloud # 0)
  /\ eff = "edit" =>
       /\ gs.has /\ gs.pointcloud # 0
       /\ w.ent[gs.pointcloud].totpoint > 0
       /\ HasLayer(w.ent[gs.pointcloud], "float3", "position")
       /\ gs.ownership = "Owned" \/ \E x \in Ents : ~w.ent[x].alive
  /\ eff \in {"replace", "empty"} =>
       \E x \in Ents : ~component_clear(w, gs).ent[x].alive

\* take_pointcloud_ownership_from_geometry_set that leaves the component as it
\* found it.
take_pointcloud_ownership_from_geometry_set_kept(gs) ==
  [gs |-> gs, pointcloud |-> IF gs.has THEN gs.pointcloud ELSE 0]

\* take_pointcloud_ownership_from_geometry_set
take_pointcloud_ownership_from_geometry_set(gs) ==
  IF ~gs.has THEN [gs |-> gs, pointcloud |-> 0]
  ELSE IF gs.pointcloud # 0
    THEN [gs |-> [has |-> TRUE, pointcloud |-> gs.pointcloud, ownership |-> "ReadOnly"],
          pointcloud |-> gs.pointcloud]
    ELSE [gs |-> NoComponent, pointcloud |-> 0]

\* eval_is_owned that does not compare with the original.
eval_is_owned_always(pointcloud_eval, pointcloud) == TRUE

\* const bool eval_is_owned = pointcloud_eval != pointcloud;
eval_is_owned(pointcloud_eval, pointcloud) == pointcloud_eval # pointcloud

\* BKE_object_free_derived_caches: evaluated data the object owns is freed.
BKE_object_free_derived_caches(w, ob) ==
  [w  |-> IF ob.data_eval # 0 /\ ob.is_data_eval_owned
            THEN pointcloud_free_data(w, ob.data_eval) ELSE w,
   ob |-> [ob EXCEPT !.data_eval = 0, !.is_data_eval_owned = FALSE,
                     !.geometry_set_eval = NoComponent]]

\* How the evaluation stands with respect to the original data-block.
OwnershipState(gs, pointcloud) ==
  IF ~gs.has \/ gs.pointcloud = 0 THEN "Missing"
  ELSE IF gs.pointcloud = pointcloud /\ gs.ownership = "ReadOnly" THEN "Borrowed"
  ELSE "Owned"

\* The geometry a modifier is handed: the component and what its data-block holds.
Geometry(w, gs) ==
  [gs |-> gs,
   totpoint |-> IF gs.has /\ gs.pointcloud # 0 THEN w.ent[gs.pointcloud].totpoint ELSE 0,
   position |-> IF gs.has /\ gs.pointcloud # 0
                  THEN positions(w.ent[gs.pointcloud], w.buf) ELSE <<>>]

\* BKE_pointcloud_data_update up to the loop over the modifiers.
DataUpdateBegin(use_render) ==
  LET freed == BKE_object_free_derived_caches(World, object)
  IN  /\ pc = "idle"
      /\ SetWorld(freed.w)
      /\ object' = [freed.ob EXCEPT !.modifiers = BKE_modifiers_clear_errors(@)]
      /\ geometry_set' = initial_geometry_set(object.data)
      /\ pc' = "modifiers"
      /\ md' = 1
      /\ run' = [use_render |-> use_render,
                 cleared |-> \E i \in 1..Len(object.modifiers) : object.modifiers[i].error,
                 invoked |-> <<>>, final |-> "none"]
      /\ UNCHANGED <<cvars, material>>

\* The loop meets a modifier that is not enabled in the required mode.
ModifierDisabled ==
  /\ pc = "modifiers" /\ md <= Len(object.modifiers)
  /\ ~BKE_modifier_is_enabled(object.modifiers[md], required_mode(run.use_render))
  /\ md' = md + 1
  /\ UNCHANGED <<ent, buf, cvars, object, geometry_set, pc, run, material>>

\* The loop meets an enabled modifier whose type has no modify_geometry_set.
ModifierWithoutCallback ==
  /\ pc = "modifiers" /\ md <= Len(object.modifiers)
  /\ BKE_modifier_is_enabled(object.modifiers[md], required_mode(run.use_render))
  /\ ~object.modifiers[md].callback
  /\ md' = md + 1
  /\ UNCHANGED <<ent, buf, cvars, object, geometry_set, pc, run, material>>

\* A loop that a modifier error ends.
next_modifier_until_error(mods, m, failed) == IF failed THEN Len(mods) + 1 ELSE m + 1

\* The modifier the loop goes to after md.
next_modifier(mods, m, failed) == m + 1

\* The loop calls modify_geometry_set of an enabled modifier; the modifier may
\* report an error (BKE_modifier_set_error) whatever it did to the geometry set.
ModifierRuns(eff, fails) ==
  LET r == modify_geometry_set(World, geometry_set, eff)
  IN  /\ pc = "modifiers" /\ md <= Len(object.modifiers)
      /\ BKE_modifier_is_enabled(object.modifiers[md], required_mode(run.use_render))
      /\ object.modifiers[md].callback
      /\ Applicable(World, geometry_set, eff)
      /\ SetWorld(r.w)
      /\ geometry_set' = r.gs
      /\ object' = [object EXCEPT !.modifiers[md].error = @ \/ fails]
      /\ run' = [run EXCEPT !.invoked = Append(@, md)]
      /\ md' = next_modifier(object.modifiers, md, fails)
      /\ UNCHANGED <<cvars, pc, material>>

\* The evaluated data-block is whatever the geometry set held, also nothing.
evaluated_pointcloud_as_taken(w, pointcloud, fresh) ==
  [w |-> w, pointcloud_eval |-> pointcloud]

\* If the geometry set did not contain a point cloud, an empty one is created.
evaluated_pointcloud(w, pointcloud, fresh) ==
  IF pointcloud = 0
    THEN [w |-> BKE_pointcloud_new_nomain(w, fresh, 0, <<>>), pointcloud_eval |-> fresh]
    ELSE [w |-> w, pointcloud_eval |-> pointcloud]

\* BKE_pointcloud_data_update after the loop.
DataUpdateFinish ==
  LET taken == take_pointcloud_ownership_from_geometry_set(geometry_set)
      made  == evaluated_pointcloud(World, taken.pointcloud, NewEnt)
      pointcloud_eval == made.pointcloud_eval
  IN  /\ pc = "modifiers" /\ md > Len(object.modifiers)
      /\ SetWorld(made.w)
      /\ object' = [object EXCEPT
                      !.data_eval = pointcloud_eval,
                      !.is_data_eval_owned = eval_is_owned(pointcloud_eval, object.data),
                      !.geometry_set_eval = taken.gs]
      /\ geometry_set' = NoComponent
      /\ pc' = "idle"
      /\ md' = 0
      /\ run' = [run EXCEPT !.final = OwnershipState(geometry_set, object.data)]
      /\ UNCHANGED <<cvars, material>>

\* The modifiers an object may carry: enabled for both modes, for the viewport
\* only, and of a type without modify_geometry_set.
ModifierChoices ==
  {[mode |-> {"Realtime", "Render"}, callback |-> TRUE, error |-> FALSE],
   [mode |-> {"Realtime"}, callback |-> TRUE, error |-> FALSE],
   [mode |-> {"Realtime", "Render"}, callback |-> FALSE, error |-> FALSE]}

\* An object whose data is a point cloud of up to MaxPoints points in a row,
\* queried for its bounds before or not, under a stack of up to MaxStages
\* modifiers.
EvalInit ==
  \E n \in 0..MaxPoints : \E queried \in BOOL :
  \E k \in 0..MaxStages : \E mods \in [1..k -> ModifierChoices] :
    LET w0 == [ent |-> [e \in Ents |-> NoPointCloud], buf |-> [b \in Bufs |-> <<>>]]
        w1 == BKE_pointcloud_new_nomain(w0, 1, n, [i \in 1..n |-> Min({i - 1, MaxPos})])
        rt == IF queried
                THEN bounds_min_max(w1.ent[1], w1.buf, TRUE, <<0, 0>>).runtime
                ELSE w1.ent[1].runtime
    IN  /\ ent = [w1.ent EXCEPT ![1].runtime = rt]
        /\ buf = w1.buf
        /\ pending = NoPending
        /\ last = Call("none", 0, 0, FALSE, <<>>, 0, 0)
        /\ phase = NoPhase
        /\ object = [NoObject EXCEPT !.data = 1, !.modifiers = mods]
        /\ geometry_set = NoComponent
        /\ pc = "idle"
        /\ md = 0
        /\ run = NoRun
        /\ material = NoMaterials

EvalNext ==
  \/ \E use_render \in BOOL : DataUpdateBegin(use_render)
  \/ ModifierDisabled
  \/ ModifierWithoutCallback
  \/ \E eff \in Effects : \E fails \in BOOL : ModifierRuns(eff, fails)
  \/ DataUpdateFinish

EvalSpec == EvalInit /\ [][EvalNext]_vars

(* ------------------------------------------------------------ properties *)
\* C1: tag_positions_changed() leaves the three caches not Valid;
\* tag_radii_changed() leaves bounds_with_radius not Valid and does not touch
\* the state or the value of the bounds cache and of the BVH cache.
C1_TagsInvalidate ==
  [][/\ last'.op = "tag_positions_changed" =>
          /\ ~is_cached(ent'[last'.e].runtime.bounds_cache)
          /\ ~is_cached(ent'[last'.e].runtime.bounds_with_radius_cache)
          /\ ~is_cached(ent'[last'.e].runtime.bvh_cache)
     /\ last'.op = "tag_radii_changed" =>
          /\ ~is_cached(ent'[last'.e].runtime.bounds_with_radius_cache)
          /\ ent'[last'.e].runtime.bounds_cache = ent[last'.e].runtime.bounds_cache
          /\ ent'[last'.e].runtime.bvh_cache = ent[last'.e].runtime.bvh_cache]_vars

\* tag_radii_changed() has just made a Valid padded-bounds cache Dirty, next to
\* a Valid bounds cache and a Valid BVH cache.
C1_Witness ==
  /\ last.op = "tag_radii_changed"
  /\ ent[last.e].runtime.bounds_with_radius_cache.state = "Dirty"
  /\ ent[last.e].runtime.bounds_cache.state = "Valid"
  /\ ent[last.e].runtime.bvh_cache.state = "Valid"

C3_EnsureOnce ==
  [][/\ (last'.op = "bounds_min_max" /\ ent[last'.e].totpoint > 0) =>
          LET c  == IF last'.use_radius
                      THEN ent[last'.e].runtime.bounds_with_radius_cache
                      ELSE ent[last'.e].runtime.bounds_cache
              c2 == IF last'.use_radius
                      THEN ent'[last'.e].runtime.bounds_with_radius_cache
                      ELSE ent'[last'.e].runtime.bounds_cache
              n  == IF last'.use_radius THEN last'.nr ELSE last'.nb
          IN  /\ is_cached(c2)
              /\ last'.result = c2.value
              /\ ~is_cached(c) => n = 1
              /\ is_cached(c) => (n = 0 /\ c2 = c)
     /\ (phase'.n = 2 /\ ent[phase'.e].totpoint > 0) =>
          (last'.nb = 1 /\ last'.result # <<>>)
     /\ (phase.n = 2 /\ phase'.n = 3 /\ ent[phase'.e].totpoint > 0) =>
          (last'.nb = 0 /\ last'.result = last.result)
    ]_vars

\* tag_positions_changed(), then two bounds_min_max(false), on a data-block
\* with points.
C3_Witness ==
  /\ phase.n = 3
  /\ ent[phase.e].totpoint > 0
  /\ last.op = "bounds_min_max" /\ ~last.use_radius /\ last.nb = 0

\* C4: on a data-block without points bounds_min_max returns no value for
\* both variants, runs no closure and leaves every cache as it was.
C4_EmptyHasNoBounds ==
  [][(last'.op = "bounds_min_max" /\ ent[last'.e].totpoint = 0) =>
        /\ last'.result = <<>>
        /\ last'.nb = 0 /\ last'.nr = 0
        /\ ent' = ent /\ buf' = buf]_vars

\* A padded-bounds query on a data-block without points whose BVH cache is Dirty.
C4_Witness ==
  /\ last.op = "bounds_min_max" /\ last.use_radius
  /\ ent[last.e].alive /\ ent[last.e].totpoint = 0
  /\ ent[last.e].runtime.bvh_cache.state = "Dirty"

\* The position layer of p holds n elements.
PositionLayerOfLength(p, heap, n) ==
  /\ HasLayer(p, "float3", "position")
  /\ Len(LayerValues(p, heap, "float3", "position")) = n

ReadPositions(es, heap, e) == positions(es[e], heap)

ReadRadius(es, heap, e) == radius(es[e], heap)

\* C6: a write through positions_for_write() / radius_for_write() on one
\* data-block changes nothing of what any other data-block reads.
C6_CopyIsDistinct ==
  [][last'.op \in {"positions_for_write", "radius_for_write"} =>
       \A o \in Ents \ {last'.e} :
          /\ ReadPositions(ent', buf', o) = ReadPositions(ent, buf, o)
          /\ ReadRadius(ent', buf', o) = ReadRadius(ent, buf, o)]_vars

\* Two data-blocks that still share their radius array (one is a copy of the
\* other) and whose positions differ after a write to one of them.
C6_Witness ==
  /\ last.op = "positions_for_write"
  /\ \E o \in Alive \ {last.e} :
        /\ HasLayer(ent[o], "float", "radius")
        /\ LET i == CustomData_get_layer_named(ent[o].pdata, "float", "radius")
               j == CustomData_get_layer_named(ent[last.e].pdata, "float", "radius")
           IN  j # 0 /\ ent[o].pdata[i].buf = ent[last.e].pdata[j].buf
        /\ ReadPositions(ent, buf, o) # ReadPositions(ent, buf, last.e)

\* An evaluation has run to its end.
Evaluated == pc = "idle" /\ run.final # "none"

\* C7: after an evaluation that ended Borrowed (always so when no modifier
\* ran) the evaluated data is the original itself and not owned; after one that
\* ended Owned it is another data-block, alive and owned.
C7_OwnershipFlagMatches ==
  Evaluated =>
     /\ run.invoked = <<>> => run.final = "Borrowed"
     /\ run.final = "Borrowed" =>
          (object.data_eval = object.data /\ ~object.is_data_eval_owned)
     /\ run.final = "Owned" =>
          /\ object.data_eval # object.data
          /\ object.data_eval # 0 /\ ent[object.data_eval].alive
          /\ object.is_data_eval_owned

\* An evaluation of two or more modifiers that ended Owned.
C7_Witness ==
  /\ Evaluated /\ run.final = "Owned" /\ Len(run.invoked) > 1
  /\ object.is_data_eval_owned /\ object.data_eval # object.data

\* C8: the evaluated data is never missing: after an evaluation whose geometry
\* set ended without a point cloud it is a new data-block of zero points that
\* the object owns.
C8_NeverMissing ==
  Evaluated =>
     /\ object.data_eval # 0 /\ ent[object.data_eval].alive
     /\ run.final = "Missing" =>
          /\ ent[object.data_eval].totpoint = 0
          /\ object.data_eval # object.data
          /\ object.is_data_eval_owned

\* An evaluation whose last modifier left the geometry set without a point
\* cloud, of an original that has points.
C8_Witness ==
  /\ Evaluated /\ run.final = "Missing" /\ run.invoked # <<>>
  /\ ent[object.data].totpoint > 0
  /\ ent[object.data_eval].totpoint = 0

RECURSIVE Runnable(_, _, _)
Runnable(mods, mode, n) ==
  IF n = 0 THEN <<>>
  ELSE IF BKE_modifier_is_enabled(mods[n], mode) /\ mods[n].callback
    THEN Append(Runnable(mods, mode, n - 1), n)
    ELSE Runnable(mods, mode, n - 1)

C10_OriginalUntouched ==
  [][/\ object'.data = object.data
     /\ ent'[object.data] = ent[object.data]
     /\ ReadPositions(ent', buf', object.data) = ReadPositions(ent, buf, object.data)
     /\ ReadRadius(ent', buf', object.data) = ReadRadius(ent, buf, object.data)
     /\ ~(object'.is_data_eval_owned /\ object'.data_eval = object.data)]_vars

CacheNames == {"bounds_cache", "bounds_with_radius_cache", "bvh_cache"}

\* C10, amended: no step of an evaluation changes the point count, the layers
\* or the attribute values of the original data-block, frees it, or hands it to
\* the object as owned evaluated data; a cache of the original that is Valid
\* stays as it is, and one that is not Valid stays as it is or becomes Valid.
C10_OriginalIsReadOnly ==
  [][/\ object'.data = object.data
     /\ ent'[object.data].alive = ent[object.data].alive
     /\ ent'[object.data].totpoint = ent[object.data].totpoint
     /\ ent'[object.data].pdata = ent[object.data].pdata
     /\ ReadPositions(ent', buf', object.data) = ReadPositions(ent, buf, object.data)
     /\ ReadRadius(ent', buf', object.data) = ReadRadius(ent, buf, object.data)
     /\ \A c \in CacheNames :
          \/ ent'[object.data].runtime[c] = ent[object.data].runtime[c]
          \/ /\ ~is_cached(ent[object.data].runtime[c])
             /\ is_cached(ent'[object.data].runtime[c])
     /\ ~(object'.is_data_eval_owned /\ object'.data_eval = object.data)]_vars

\* An evaluation that ended with an edited copy, next to an original whose
\* caches are still Valid.
C10_Witness ==
  /\ Evaluated /\ run.final = "Owned"
  /\ ent[object.data].alive /\ ent[object.data].totpoint > 0
  /\ ent[object.data_eval].totpoint = ent[object.data].totpoint
  /\ ReadPositions(ent, buf, object.data_eval) # ReadPositions(ent, buf, object.data)
  /\ ent[object.data].runtime.bounds_cache.state = "Valid"
  /\ ent[object.data_eval].runtime.bounds_cache.state = "Dirty"

\* C11 as stated: after every evaluation the geometry set kept on the object
\* holds a ReadOnly reference to the very data-block assigned as evaluated data.
C11_ContainerReferencesResult ==
  Evaluated =>
     /\ object.geometry_set_eval.has
     /\ object.geometry_set_eval.pointcloud = object.data_eval
     /\ object.geometry_set_eval.ownership = "ReadOnly"

\* C11, amended: after an evaluation whose geometry set ended with a point
\* cloud (the borrowed original or one a modifier produced) the geometry set
\* kept on the object holds a ReadOnly reference to the evaluated data; after
\* one that ended without, it has no point cloud component and the new
\* zero-point data-block is reachable through the object only. It never owns
\* a data-block.
C11_ContainerNeverOwns ==
  Evaluated =>
     /\ run.final # "Missing" =>
          object.geometry_set_eval =
            [has |-> TRUE, pointcloud |-> object.data_eval, ownership |-> "ReadOnly"]
     /\ run.final = "Missing" =>
          /\ ~object.geometry_set_eval.has
          /\ object.geometry_set_eval.pointcloud # object.data_eval
     /\ object.geometry_set_eval.ownership # "Owned"

\* An evaluation that ended with a data-block a modifier produced, which the
\* geometry set kept on the object refers to.
C11_Witness ==
  /\ Evaluated /\ run.final = "Owned" /\ run.invoked # <<>>
  /\ object.geometry_set_eval.has
  /\ object.geometry_set_eval.pointcloud = object.data_eval
  /\ object.data_eval # object.data

\* The material index a reader sees for point i.
MaterialIndexAt(p, heap, i) ==
  IF HasLayer(p, "int", "material_index")
    THEN LayerValues(p, heap, "int", "material_index")[i]
    ELSE 0

HighestMaterialIndex(p, heap) == Max({MaterialIndexAt(p, heap, i) : i \in 1..p.totpoint})

\* C12: material_index_max() returns no value exactly when the data-block has
\* no points; otherwise a value in 0..MAXMAT: the highest material index of the
\* points (0 where the attribute is absent), 0 when that is negative and MAXMAT
\* when it is above MAXMAT.
C12_MaterialIndexMaxClamped ==
  last.op = "material_index_max" =>
     LET p == ent[last.e]
         m == HighestMaterialIndex(p, buf)
     IN  /\ last.result = <<>> <=> p.totpoint = 0
         /\ p.totpoint > 0 =>
              /\ Len(last.result) = 1
              /\ last.result[1] \in 0..MAXMAT
              /\ m < 0 => last.result[1] = 0
              /\ m > MAXMAT => last.result[1] = MAXMAT
              /\ m \in 0..MAXMAT => last.result[1] = m

\* material_index_max() on a data-block whose points all have a negative
\* material index.
C12_Witness ==
  /\ last.op = "material_index_max"
  /\ ent[last.e].totpoint > 1
  /\ HasLayer(ent[last.e], "int", "material_index")
  /\ HighestMaterialIndex(ent[last.e], buf) < 0
  /\ last.result = <<0>>

\* The material indices of a data-block of three points are those of seq.
MaterialIndicesAre(p, heap, seq) ==
  /\ p.totpoint = 3
  /\ HasLayer(p, "int", "material_index")
  /\ LayerValues(p, heap, "int", "material_index") = seq

\* C13 as stated: on three points material_index_max() returns 0 while the
\* attribute is absent, 7 once point 1 is 7, and MAXMAT once point 1 is 999.
C13_ThreePointsClampAt999 ==
  (last.op = "material_index_max" /\ ent[last.e].totpoint = 3) =>
     /\ ~HasLayer(ent[last.e], "int", "material_index") => last.result = <<0>>
     /\ MaterialIndicesAre(ent[last.e], buf, <<0, 7, 0>>) => last.result = <<7>>
     /\ MaterialIndicesAre(ent[last.e], buf, <<0, 999, 0>>) => last.result = <<MAXMAT>>

\* C13, amended: on three points material_index_max() returns 0 while the
\* attribute is absent, 7 once point 1 is 7, 999 once point 1 is 999 (which is
\* below MAXMAT), and MAXMAT once point 1 is above MAXMAT.
C13_ThreePoints ==
  (last.op = "material_index_max" /\ ent[last.e].totpoint = 3) =>
     /\ ~HasLayer(ent[last.e], "int", "material_index") => last.result = <<0>>
     /\ MaterialIndicesAre(ent[last.e], buf, <<0, 7, 0>>) => last.result = <<7>>
     /\ MaterialIndicesAre(ent[last.e], buf, <<0, 999, 0>>) => last.result = <<999>>
     /\ MaterialIndicesAre(ent[last.e], buf, <<0, MAXMAT + 1, 0>>) =>
          last.result = <<MAXMAT>>

\* material_index_max() on three points of which point 1 has material index 999.
C13_Witness ==
  /\ last.op = "material_index_max"
  /\ MaterialIndicesAre(ent[last.e], buf, <<0, 999, 0>>)

\* The call that has just returned a span for writing, and what it asked for.
SpanRequest(c) == c.op \in {"span positions_for_write", "span radius_for_write"}

RequestedType(c) == IF c.op = "span positions_for_write" THEN "float3" ELSE "float"

RequestedName(c) == IF c.op = "span positions_for_write" THEN "position" ELSE "radius"

RequestedDefault(c) == IF c.op = "span positions_for_write" THEN 0 ELSE DefaultRadius

\* C14: a request for write access to an attribute no layer stands for returns
\* a span of totpoint elements that all equal the default asked for, and leaves
\* a layer for the attribute exactly when the data-block has points.
C14_NewLayerHoldsDefault ==
  [][(SpanRequest(last') /\ ent[last'.e].alive
        /\ ~NameInUse(ent[last'.e].pdata, RequestedName(last'))) =>
       LET p == ent'[last'.e]
       IN  /\ Len(last'.result) = p.totpoint
           /\ \A i \in 1..p.totpoint : last'.result[i] = RequestedDefault(last')
           /\ HasLayer(p, RequestedType(last'), RequestedName(last')) <=> p.totpoint > 0
           /\ p.totpoint > 0 =>
                LayerValues(p, buf', RequestedType(last'), RequestedName(last'))
                  = last'.result
           /\ p.totpoint = 0 => (last'.arg = 0 /\ p.pdata = ent[last'.e].pdata)]_vars

\* radius_for_write() has just made the radius layer of a data-block with points.
C14_Witness ==
  /\ last.op = "span radius_for_write"
  /\ ent[last.e].totpoint = MaxPoints
  /\ Len(last.result) = MaxPoints
  /\ \A i \in 1..MaxPoints : last.result[i] = DefaultRadius
  /\ Len(ent[last.e].pdata) = 2
  /\ ent[last.e].pdata[2] = CustomDataLayer("radius", "float", last.arg)

\* C15: a request for write access to an attribute that has a layer returns a
\* view of that layer and changes no layer and no value, whatever the first
\* element is.
C15_ExistingLayerKept ==
  [][(SpanRequest(last') /\ ent[last'.e].alive
        /\ HasLayer(ent[last'.e], RequestedType(last'), RequestedName(last'))) =>
       LET before == ent[last'.e]
           after  == ent'[last'.e]
           i == CustomData_get_layer_named(after.pdata, RequestedType(last'),
                                           RequestedName(last'))
       IN  /\ after.pdata = before.pdata
           /\ \A j \in 1..Len(before.pdata) :
                 before.pdata[j].buf # 0 =>
                    buf'[after.pdata[j].buf] = buf[before.pdata[j].buf]
           /\ last'.arg = after.pdata[i].buf
           /\ last'.result = Span(buf[before.pdata[i].buf], before.totpoint)]_vars

\* radius_for_write() on a radius layer whose first element is not the default
\* and whose elements are not all equal.
C15_Witness ==
  /\ last.op = "span radius_for_write"
  /\ ent[last.e].totpoint > 1
  /\ Len(last.result) = ent[last.e].totpoint
  /\ last.result[1] # DefaultRadius
  /\ last.result[2] # last.result[1]

\* No two layers have the same name.
UniqueNames(pdata) ==
  \A i, j \in 1..Len(pdata) : i # j => pdata[i].name # pdata[j].name

\* A layer named "position" is of type float3.
PositionIsFloat3(pdata) ==
  \A i \in 1..Len(pdata) : pdata[i].name = "position" => pdata[i].type = "float3"

\* The name asked for is the name of a layer of another type only.
OtherTypeOnly(p, c) ==
  /\ NameInUse(p.pdata, RequestedName(c))
  /\ ~HasLayer(p, RequestedType(c), RequestedName(c))

C16_ParametersReplaced ==
  [][last'.op = "pointcloud_copy_parameters" =>
       LET src == last'.arg
           dst == last'.e
           old == material.of[dst].mat
       IN  /\ material'.of[dst].flag = material.of[src].flag
           /\ material'.of[dst].totcol = material.of[src].totcol
           /\ MaterialSpan(material', dst) = MaterialSpan(material, src)
           /\ material'.of[dst].mat # material'.of[src].mat
           /\ material'.heap[material'.of[dst].mat].live
           /\ old # 0 => (old = material'.of[dst].mat \/ ~material'.heap[old].live)
           /\ material'.of[src] = material.of[src]
           /\ MaterialSpan(material', src) = MaterialSpan(material, src)
           /\ ent' = ent /\ buf' = buf]_vars

\* pointcloud_copy_parameters has just given a data-block the MaxCol materials
\* and the flag of another one, which has another number of points.
C16_Witness ==
  /\ last.op = "pointcloud_copy_parameters"
  /\ material.of[last.arg].totcol = MaxCol
  /\ material.of[last.arg].flag = 1
  /\ MaterialSpan(material, last.e) = MaterialSpan(material, last.arg)
  /\ MaterialSpan(material, last.e)[1] # MaterialSpan(material, last.e)[MaxCol]
  /\ material.of[last.e].mat # material.of[last.arg].mat
  /\ ent[last.e].totpoint # ent[last.arg].totpoint

\* C18: with a uniform radius, a bounds_min_max(true) that has to compute
\* takes the envelope of the positions from the cache of the plain bounds,
\* which it leaves valid, and pads it by that radius: the plain closure runs
\* only if that cache was not valid. After tag_radii_changed() on a data-block
\* whose caches were all valid, the next bounds_min_max(true) runs the padded
\* closure once and the plain closure not at all, and a bounds_min_max(false)
\* after it runs no closure.
C18_PaddedBoundsReusePlain ==
  [][/\ (/\ last'.op = "bounds_min_max" /\ last'.use_radius
         /\ ent[last'.e].totpoint > 0
         /\ ~HasLayer(ent[last'.e], "float", "radius")
         /\ ~is_cached(ent[last'.e].runtime.bounds_with_radius_cache)) =>
          LET before == ent[last'.e].runtime.bounds_cache
              after  == ent'[last'.e].runtime.bounds_cache
          IN  /\ is_cached(after)
              /\ is_cached(before) => after = before
              /\ last'.nr = 1
              /\ last'.nb = (IF is_cached(before) THEN 0 ELSE 1)
              /\ last'.result = pad(after.value, DefaultRadius)
              /\ HasLayer(ent[last'.e], "float3", "position") =>
                   after.value = Envelope(ent[last'.e], buf, FALSE)
     /\ phase'.n = 5 => (last'.nr = 1 /\ last'.nb = 0)
     /\ phase'.n = 6 => (last'.nr = 0 /\ last'.nb = 0)
    ]_vars

\* tag_radii_changed() on valid caches, bounds_min_max(true), then
\* bounds_min_max(false), on a data-block with a uniform radius and two
\* different positions.
C18_Witness ==
  /\ phase.n = 6
  /\ last.op = "bounds_min_max" /\ ~last.use_radius /\ last.nb = 0 /\ last.nr = 0
  /\ ~HasLayer(ent[phase.e], "float", "radius")
  /\ HasLayer(ent[phase.e], "float3", "position")
  /\ ent[phase.e].totpoint > 1
  /\ last.result[1] # last.result[2]
  /\ ent[phase.e].runtime.bounds_with_radius_cache.value = pad(last.result, DefaultRadius)

\* C19: in an evaluation the loop only moves forward through the stack; the
\* modifiers it calls are called in stack order, each at most once, and each
\* is enabled in the required mode; a step that calls no modifier (a modifier
\* disabled for the mode, or one without modify_geometry_set) leaves the
\* geometry set, the data-blocks and the object as they were, so that the next
\* modifier called gets what the last one called left. The errors of the run
\* before are all cleared when the evaluation begins, before any modifier is
\* called, and no other step clears an error.
C19_StagesInOrderErrorsClearedAtStart ==
  [][/\ (pc = "idle" /\ pc' = "modifiers") =>
          /\ run'.invoked = <<>>
          /\ \A i \in 1..Len(object'.modifiers) : ~object'.modifiers[i].error
     /\ pc = "modifiers" =>
          /\ \A i \in 1..Len(object.modifiers) :
               object.modifiers[i].error => object'.modifiers[i].error
          /\ pc' = "modifiers" => md' > md
          /\ (/\ md <= Len(object.modifiers)
              /\ ~BKE_modifier_is_enabled(object.modifiers[md],
                                          required_mode(run.use_render))) =>
               /\ run'.invoked = run.invoked
               /\ geometry_set' = geometry_set /\ ent' = ent /\ buf' = buf
               /\ object' = object
          /\ \/ /\ run'.invoked = run.invoked
                /\ pc' = "modifiers" =>
                     /\ geometry_set' = geometry_set /\ ent' = ent /\ buf' = buf
                     /\ object' = object
             \/ /\ run'.invoked = Append(run.invoked, md)
                /\ \A k \in 1..Len(run.invoked) : run.invoked[k] < md
                /\ BKE_modifier_is_enabled(object.modifiers[md],
                                           required_mode(run.use_render))
    ]_vars

\* A render evaluation that found an error of the evaluation before, skipped
\* the second of three modifiers, which is enabled for the viewport only, and
\* called the first and the third, of which the third failed.
C19_Witness ==
  /\ Evaluated
  /\ run.use_render /\ run.cleared
  /\ Len(object.modifiers) = 3
  /\ ~BKE_modifier_is_enabled(object.modifiers[2], "Render")
  /\ run.invoked = <<1, 3>>
  /\ ~object.modifiers[1].error /\ ~object.modifiers[2].error /\ object.modifiers[3].error

\* The values of layer i of a data-block.
LayerAt(p, heap, i) == IF p.pdata[i].buf = 0 THEN <<>> ELSE heap[p.pdata[i].buf]

\* What BKE_pointcloud_nomain_to_pointcloud(src, dst) leaves, apart from the
\* bounds dst answers with: dst has the point count of src; its layers are
\* those of src, by name, type and values, each as long as the point count,
\* and no other; its three caches are as those of src were; src is freed.
MovedInto(src, dst) ==
  /\ ent'[dst].alive
  /\ ent'[dst].totpoint = ent[src].totpoint
  /\ Len(ent'[dst].pdata) = Len(ent[src].pdata)
  /\ \A i \in 1..Len(ent[src].pdata) :
       /\ ent'[dst].pdata[i].name = ent[src].pdata[i].name
       /\ ent'[dst].pdata[i].type = ent[src].pdata[i].type
       /\ LayerAt(ent'[dst], buf', i) = LayerAt(ent[src], buf, i)
       /\ Len(LayerAt(ent'[dst], buf', i)) = ent[src].totpoint
  /\ ent'[dst].runtime.bounds_cache = ent[src].runtime.bounds_cache
  /\ ent'[dst].runtime.bounds_with_radius_cache
       = ent[src].runtime.bounds_with_radius_cache
  /\ ent'[dst].runtime.bvh_cache = ent[src].runtime.bvh_cache
  /\ ent'[src] = NoPointCloud

====
